---- MODULE Spec2Model ----
(***************************************************************************)
(* Model of main.py: the TaskManager store (a list of task dicts kept in   *)
(* tasks.json) and the KanbanApp handlers that drive it.                   *)
(*                                                                         *)
(* Text is modelled as a sequence of one-character strings, so that        *)
(* str.strip(), date.strftime() and the JSON encoding are computed, not    *)
(* assumed.  A task dict is a record [id, title, status, date].            *)
(***************************************************************************)
EXTENDS Integers, Sequences, FiniteSets, TLC

VARIABLES
    tasks,        \* TaskManager.tasks: the in-memory list of task dicts
    file,         \* tasks.json: [exists, content], content the JSON document
    board,        \* the cards in todo_frame / doing_frame / done_frame
    dialogs,      \* number of open "Add New Task" dialogs
    title_entry,  \* text of title_entry when confirm() last ran
    messagebox,   \* title of the message box shown last ("" when none)
    handler,      \* the KanbanApp handler that ran last
    lastOp,       \* history: the last store operation, its arguments, the state before it
    assigned,     \* history: the id given by every add_task so far, in order
    addsOnly      \* history: every store operation so far was add_task(_, "To do", _)

vars == <<tasks, file, board, dialogs, title_entry, messagebox, handler,
          lastOp, assigned, addsOnly>>

----------------------------------------------------------------------------
(* Bounds *)

MaxTasks == 2      \* add_task is not taken when the list has this many tasks
MaxAdds == 3       \* add_task is not taken after this many adds in all
MaxDialogs == 1    \* add_task_dialog is not taken with this many dialogs open

----------------------------------------------------------------------------
(* Text helpers *)

Whitespace == {" "}

RECURSIVE lstrip(_)
lstrip(s) ==
    IF s # <<>> /\ Head(s) \in Whitespace THEN lstrip(Tail(s)) ELSE s

RECURSIVE rstrip(_)
rstrip(s) ==
    IF s # <<>> /\ s[Len(s)] \in Whitespace
    THEN rstrip(SubSeq(s, 1, Len(s) - 1))
    ELSE s

\* mutant of strip: the call to .strip() left out
strip_omitted(s) == s

\* str.strip(): leading and trailing whitespace removed
strip(s) == rstrip(lstrip(s))

DigitChars == <<"0", "1", "2", "3", "4", "5", "6", "7", "8", "9">>

\* decimal text of a natural number, as json.dump and strftime write it
RECURSIVE int_to_text(_)
int_to_text(n) ==
    IF n < 10 THEN <<DigitChars[n + 1]>>
    ELSE int_to_text(n \div 10) \o <<DigitChars[(n % 10) + 1]>>

DigitValue(c) == (CHOOSE i \in 1..10 : DigitChars[i] = c) - 1

\* the number a decimal text denotes, as json.load reads it
RECURSIVE text_to_int(_)
text_to_int(s) ==
    IF Len(s) = 1 THEN DigitValue(s[1])
    ELSE 10 * text_to_int(SubSeq(s, 1, Len(s) - 1)) + DigitValue(s[Len(s)])

\* %m and %d: two digits, zero padded
two_digits(n) == IF n < 10 THEN <<"0">> \o int_to_text(n) ELSE int_to_text(n)

\* selected_date.strftime("%Y-%m-%d")
strftime(d) ==
    int_to_text(d.year) \o <<"-">> \o two_digits(d.month) \o <<"-">> \o two_digits(d.day)

----------------------------------------------------------------------------
(* Inputs *)

Statuses == {"To do", "Doing", "Done"}

\* what the user may have picked in date_entry
Date1 == [year |-> 2024, month |-> 1, day |-> 2]
Date2 == [year |-> 2025, month |-> 12, day |-> 31]

\* what the user may have typed and picked in an "Add New Task" dialog
DialogInputs ==
    { [entry |-> <<>>, selected_date |-> Date1],
      [entry |-> <<" ">>, selected_date |-> Date2],
      [entry |-> <<"a">>, selected_date |-> Date1],
      [entry |-> <<" ", "b", " ">>, selected_date |-> Date2] }

\* arguments a caller of the store may pass
AddArgs ==
    { [title |-> <<"a">>, date_str |-> strftime(Date1)],
      [title |-> <<"b">>, date_str |-> strftime(Date2)] }
StatusArgs == Statuses \cup {"Archived"}
IdArgs == 1..(MaxTasks + 1)

----------------------------------------------------------------------------
(* JSON: json.dump(self.tasks, f) and json.load(f) *)

\* one dict as a JSON object: its members in insertion order, the id as a
\* number (decimal text), the other three as strings
dump_task(t) ==
    << <<"id", "number", int_to_text(t.id)>>,
       <<"title", "string", t.title>>,
       <<"status", "string", t.status>>,
       <<"date", "string", t.date>> >>

json_dump(ts) == [i \in 1..Len(ts) |-> dump_task(ts[i])]

member(obj, key) == obj[CHOOSE i \in 1..Len(obj) : obj[i][1] = key]

value(m) == IF m[2] = "number" THEN text_to_int(m[3]) ELSE m[3]

\* mutant of load_task: title and date read from each other's member
load_task_swapped(obj) ==
    [id |-> value(member(obj, "id")),
     title |-> value(member(obj, "date")),
     status |-> value(member(obj, "status")),
     date |-> value(member(obj, "title"))]

load_task(obj) ==
    [id |-> value(member(obj, "id")),
     title |-> value(member(obj, "title")),
     status |-> value(member(obj, "status")),
     date |-> value(member(obj, "date"))]

json_load(doc) == [i \in 1..Len(doc) |-> load_task(doc[i])]

----------------------------------------------------------------------------
(* TaskManager *)

NoFile == [exists |-> FALSE, content |-> <<>>]

\* load_tasks: the list a store starts with, given the backing file
load_tasks(f) == IF f.exists THEN json_load(f.content) ELSE <<>>

\* save_tasks: the backing file after the list ts is written ("w" truncates)
save_tasks(ts) == [exists |-> TRUE, content |-> json_dump(ts)]

new_task(ts, title, status, date_str) ==
    [id |-> Len(ts) + 1, title |-> title, status |-> status, date |-> date_str]

\* mutant of tasks_after_add: insert(0, new_task) instead of append
tasks_after_add_front(ts, title, status, date_str) ==
    <<new_task(ts, title, status, date_str)>> \o ts

tasks_after_add(ts, title, status, date_str) ==
    Append(ts, new_task(ts, title, status, date_str))

\* mutant of tasks_after_update: a miss taken as index -1, the last task
tasks_after_update_last(ts, task_id, new_status) ==
    LET hits == { i \in 1..Len(ts) : ts[i].id = task_id } IN
    IF ts = <<>> THEN ts
    ELSE LET at == IF hits = {} THEN Len(ts)
                   ELSE CHOOSE i \in hits : \A j \in hits : i <= j
         IN [ts EXCEPT ![at].status = new_status]

\* the for loop of update_task_status: the first task with the id, then break
tasks_after_update(ts, task_id, new_status) ==
    LET hits == { i \in 1..Len(ts) : ts[i].id = task_id } IN
    IF hits = {} THEN ts
    ELSE LET first == CHOOSE i \in hits : \A j \in hits : i <= j
         IN [ts EXCEPT ![first].status = new_status]

\* mutant of tasks_after_delete: only the first task with the id is removed
RECURSIVE tasks_after_delete_first(_, _)
tasks_after_delete_first(ts, task_id) ==
    IF ts = <<>> THEN <<>>
    ELSE IF Head(ts).id # task_id
         THEN <<Head(ts)>> \o tasks_after_delete_first(Tail(ts), task_id)
         ELSE Tail(ts)

\* the list comprehension of delete_task
RECURSIVE tasks_after_delete(_, _)
tasks_after_delete(ts, task_id) ==
    IF ts = <<>> THEN <<>>
    ELSE IF Head(ts).id # task_id
         THEN <<Head(ts)>> \o tasks_after_delete(Tail(ts), task_id)
         ELSE tasks_after_delete(Tail(ts), task_id)

\* the list comprehension of get_tasks_by_status
RECURSIVE get_tasks_by_status(_, _)
get_tasks_by_status(ts, status) ==
    IF ts = <<>> THEN <<>>
    ELSE IF Head(ts).status = status
         THEN <<Head(ts)>> \o get_tasks_by_status(Tail(ts), status)
         ELSE get_tasks_by_status(Tail(ts), status)

Op(name, task_id, title, status, date_str) ==
    [op |-> name, id |-> task_id, title |-> title, status |-> status,
     date |-> date_str, pre_tasks |-> tasks, pre_file |-> file,
     \* a delete right after a delete of the same id that removed a task
     second_delete |-> /\ name = "delete"
                       /\ lastOp.op = "delete"
                       /\ lastOp.id = task_id
                       /\ \E i \in 1..Len(lastOp.pre_tasks) :
                              lastOp.pre_tasks[i].id = task_id]

add_task(title, status, date_str) ==
    /\ Len(tasks) < MaxTasks
    /\ Len(assigned) < MaxAdds
    /\ tasks' = tasks_after_add(tasks, title, status, date_str)
    /\ file' = save_tasks(tasks')
    /\ assigned' = Append(assigned, new_task(tasks, title, status, date_str).id)
    /\ addsOnly' = (addsOnly /\ status = "To do")
    /\ lastOp' = Op("add", 0, title, status, date_str)

\* mutant of update_task_status: save_tasks() called before the loop
update_task_status_save_first(task_id, new_status) ==
    /\ tasks' = tasks_after_update(tasks, task_id, new_status)
    /\ file' = save_tasks(tasks)
    /\ addsOnly' = FALSE
    /\ lastOp' = Op("update", task_id, <<>>, new_status, <<>>)
    /\ UNCHANGED assigned

update_task_status(task_id, new_status) ==
    /\ tasks' = tasks_after_update(tasks, task_id, new_status)
    /\ file' = save_tasks(tasks')
    /\ addsOnly' = FALSE
    /\ lastOp' = Op("update", task_id, <<>>, new_status, <<>>)
    /\ UNCHANGED assigned

delete_task(task_id) ==
    /\ tasks' = tasks_after_delete(tasks, task_id)
    /\ file' = save_tasks(tasks')
    /\ addsOnly' = FALSE
    /\ lastOp' = Op("delete", task_id, <<>>, "", <<>>)
    /\ UNCHANGED assigned

\* TaskManager(): a fresh store over the backing file as it is
TaskManager_init ==
    /\ tasks' = load_tasks(file)
    /\ addsOnly' = FALSE
    /\ lastOp' = Op("load", 0, <<>>, "", <<>>)
    /\ UNCHANGED <<file, assigned>>

\* a handler that does not reach the store
no_store_op ==
    /\ lastOp' = Op("none", 0, <<>>, "", <<>>)
    /\ UNCHANGED <<tasks, file, assigned, addsOnly>>

----------------------------------------------------------------------------
(* KanbanApp *)

\* the move buttons of a card in the column of `status`, left to right
move_buttons(task, status) ==
    (IF status # "To do" THEN <<[text |-> "To do", tid |-> task.id, new_status |-> "To do"]>> ELSE <<>>)
    \o (IF status # "Doing" THEN <<[text |-> "Doing", tid |-> task.id, new_status |-> "Doing"]>> ELSE <<>>)
    \o (IF status # "Done" THEN <<[text |-> "Done", tid |-> task.id, new_status |-> "Done"]>> ELSE <<>>)

card(task, status) ==
    [title |-> task.title, date |-> task.date,
     buttons |-> move_buttons(task, status), delete_tid |-> task.id]

create_cards_for_status(ts, status) ==
    LET shown == get_tasks_by_status(ts, status)
    IN [i \in 1..Len(shown) |-> card(shown[i], status)]

refresh_board(ts) ==
    [todo_frame |-> create_cards_for_status(ts, "To do"),
     doing_frame |-> create_cards_for_status(ts, "Doing"),
     done_frame |-> create_cards_for_status(ts, "Done")]

Frames == {"todo_frame", "doing_frame", "done_frame"}

add_task_dialog ==
    /\ dialogs < MaxDialogs
    /\ dialogs' = dialogs + 1
    /\ handler' = "add_task_dialog"
    /\ no_store_op
    /\ UNCHANGED <<board, title_entry, messagebox>>

\* mutant of confirm_status: the literal misspelt
confirm_status_misspelt == "Todo"

\* the status confirm() passes to add_task
confirm_status == "To do"

\* confirm(): the "Add Task" button of an open dialog
confirm(entry, selected_date) ==
    /\ dialogs > 0
    /\ handler' = "confirm"
    /\ title_entry' = entry
    /\ LET title == strip(entry)
           dt == strftime(selected_date)
       IN IF title = <<>>
          THEN /\ messagebox' = "Warning"
               /\ no_store_op
               /\ UNCHANGED <<board, dialogs>>
          ELSE /\ add_task(title, confirm_status, dt)
               /\ board' = refresh_board(tasks')
               /\ dialogs' = dialogs - 1
               /\ UNCHANGED messagebox

move_task(task_id, new_status) ==
    /\ handler' = "move_task"
    /\ update_task_status(task_id, new_status)
    /\ board' = refresh_board(tasks')
    /\ UNCHANGED <<dialogs, title_entry, messagebox>>

\* KanbanApp.delete_task; answer is what the user replies to askyesno
KanbanApp_delete_task(task_id, answer) ==
    /\ handler' = "delete_task"
    /\ messagebox' = "Confirm Delete"
    /\ IF answer
       THEN /\ delete_task(task_id)
            /\ board' = refresh_board(tasks')
       ELSE /\ no_store_op
            /\ UNCHANGED board
    /\ UNCHANGED <<dialogs, title_entry>>

\* main(): the program is started again over the backing file
main ==
    /\ handler' = "main"
    /\ TaskManager_init
    /\ board' = refresh_board(tasks')
    /\ dialogs' = 0
    /\ title_entry' = <<>>
    /\ messagebox' = ""

----------------------------------------------------------------------------
(* Specifications *)

Init ==
    /\ file = NoFile
    /\ tasks = load_tasks(NoFile)
    /\ board = refresh_board(tasks)
    /\ dialogs = 0
    /\ title_entry = <<>>
    /\ messagebox = ""
    /\ handler = "main"
    /\ lastOp = [op |-> "load", id |-> 0, title |-> <<>>, status |-> "",
                 date |-> <<>>, pre_tasks |-> <<>>, pre_file |-> NoFile,
                 second_delete |-> FALSE]
    /\ assigned = <<>>
    /\ addsOnly = TRUE

UI == <<board, dialogs, title_entry, messagebox, handler>>

\* the store driven directly by a caller
StoreAdd ==
    \E a \in AddArgs, status \in StatusArgs :
        add_task(a.title, status, a.date_str) /\ UNCHANGED UI

StoreUpdate ==
    \E task_id \in IdArgs, new_status \in StatusArgs :
        update_task_status(task_id, new_status) /\ UNCHANGED UI

StoreDelete ==
    \E task_id \in IdArgs : delete_task(task_id) /\ UNCHANGED UI

StoreLoad == TaskManager_init /\ UNCHANGED UI

Next == StoreAdd \/ StoreUpdate \/ StoreDelete \/ StoreLoad

Spec == Init /\ [][Next]_vars

\* the store driven by the board: every button the window shows
ClickAddNewTask == add_task_dialog

ClickAddTask ==
    \E d \in DialogInputs : confirm(d.entry, d.selected_date)

ClickMove ==
    \E f \in Frames : \E i \in 1..Len(board[f]) :
        \E b \in 1..Len(board[f][i].buttons) :
            move_task(board[f][i].buttons[b].tid, board[f][i].buttons[b].new_status)

ClickDelete ==
    \E f \in Frames : \E i \in 1..Len(board[f]) : \E answer \in BOOLEAN :
        KanbanApp_delete_task(board[f][i].delete_tid, answer)

Restart == main

BoardNext == ClickAddNewTask \/ ClickAddTask \/ ClickMove \/ ClickDelete \/ Restart

BoardSpec == Init /\ [][BoardNext]_vars

----------------------------------------------------------------------------
(* Properties *)

Pre == lastOp.pre_tasks

HasId(ts, task_id) == \E i \in 1..Len(ts) : ts[i].id = task_id

Others(ts, task_id) == SelectSeq(ts, LAMBDA t : t.id # task_id)

\* title, status and date of each task of a list, in order
Fields(ts) == [i \in 1..Len(ts) |-> <<ts[i].title, ts[i].status, ts[i].date>>]

FirstWithId(ts, task_id) ==
    ts[CHOOSE i \in 1..Len(ts) :
          /\ ts[i].id = task_id
          /\ \A j \in 1..Len(ts) : ts[j].id = task_id => i <= j]

Blank(s) == \A i \in 1..Len(s) : s[i] \in Whitespace

\* C1: no two tasks of the current collection have the same id.
UniqueIds ==
    \A i, j \in 1..Len(tasks) : i # j => tasks[i].id # tasks[j].id

\* C2: the id add_task assigns differs from the id assigned by every earlier
\* add_task, deleted or not.
IdsNeverReused ==
    \A i, j \in 1..Len(assigned) : i # j => assigned[i] # assigned[j]

\* C3: when add_task, update_task_status or delete_task has returned, the
\* backing file exists and holds exactly the in-memory collection, whether
\* or not the operation matched a task.
FileMatchesMemory ==
    lastOp.op \in {"add", "update", "delete"} =>
        /\ file.exists
        /\ file.content = json_dump(tasks)
        /\ json_load(file.content) = tasks

FileMatchesMemoryWitness ==
    /\ lastOp.op = "delete"
    /\ ~HasId(Pre, lastOp.id)
    /\ Len(tasks) = 2
    /\ file.exists

\* C4: saving a reachable collection and loading it in a fresh store gives
\* the same tasks in the same order with the same id, title, status and
\* date; a fresh store without a backing file is empty.
RoundTrip ==
    /\ load_tasks(save_tasks(tasks)) = tasks
    /\ load_tasks(NoFile) = <<>>
    /\ lastOp.op = "load" =>
          tasks = IF lastOp.pre_file.exists THEN Pre ELSE <<>>

RoundTripWitness ==
    /\ lastOp.op = "load"
    /\ Len(tasks) = 2
    /\ tasks[1].title # tasks[2].title
    /\ tasks[1].status # tasks[2].status

\* C5: while every operation so far was an add with status "To do", after
\* each add the "To do" query is the earlier "To do" query followed by the
\* new task, it has one task per add, and the "Doing" and "Done" queries
\* are empty.
AddsQueriedInOrder ==
    (addsOnly /\ lastOp.op = "add") =>
        /\ Fields(get_tasks_by_status(tasks, "To do"))
              = Append(Fields(get_tasks_by_status(Pre, "To do")),
                       <<lastOp.title, "To do", lastOp.date>>)
        /\ Len(get_tasks_by_status(tasks, "To do")) = Len(assigned)
        /\ get_tasks_by_status(tasks, "Doing") = <<>>
        /\ get_tasks_by_status(tasks, "Done") = <<>>

AddsQueriedInOrderWitness ==
    /\ addsOnly
    /\ lastOp.op = "add"
    /\ Len(tasks) = 2
    /\ tasks[1].title # tasks[2].title

\* C6: update_task_status(id, s) for an id in the collection, s not the
\* task's old status, leaves no task with that id in the old status' query,
\* a task with that id in the query of s, and the number of tasks unchanged.
UpdateMovesTask ==
    (lastOp.op = "update" /\ HasId(Pre, lastOp.id)) =>
        LET old == FirstWithId(Pre, lastOp.id).status IN
        old # lastOp.status =>
            /\ ~HasId(get_tasks_by_status(tasks, old), lastOp.id)
            /\ HasId(get_tasks_by_status(tasks, lastOp.status), lastOp.id)
            /\ Len(tasks) = Len(Pre)

\* C7: after delete_task(id) no status query has a task with that id, the
\* tasks with other ids are those from before, unchanged and in the same
\* order, and a second delete_task(id) changes neither collection nor file.
DeleteRemovesTask ==
    lastOp.op = "delete" =>
        /\ \A s \in StatusArgs : ~HasId(get_tasks_by_status(tasks, s), lastOp.id)
        /\ ~HasId(tasks, lastOp.id)
        /\ Others(tasks, lastOp.id) = Others(Pre, lastOp.id)
        /\ tasks_after_delete(tasks, lastOp.id) = tasks
        /\ save_tasks(tasks_after_delete(tasks, lastOp.id)) = file
        /\ lastOp.second_delete => (tasks = Pre /\ file = lastOp.pre_file)

DeleteRemovesTaskWitness ==
    /\ lastOp.op = "delete"
    /\ lastOp.second_delete
    /\ tasks # <<>>

\* C8: under the operations the board issues, every task in memory and in
\* the backing file has status "To do", "Doing" or "Done".
StatusAlwaysValid ==
    /\ \A i \in 1..Len(tasks) : tasks[i].status \in Statuses
    /\ \A i \in 1..Len(load_tasks(file)) : load_tasks(file)[i].status \in Statuses

StatusAlwaysValidWitness ==
    /\ handler = "move_task"
    /\ Len(tasks) = 2
    /\ tasks[1].status = "Done"
    /\ tasks[2].status = "Doing"
    /\ load_tasks(file) = tasks

\* C9: update_task_status with an id no task has leaves the collection, and
\* so every status query, as it was.
UpdateMissIsNoop ==
    (lastOp.op = "update" /\ ~HasId(Pre, lastOp.id)) =>
        /\ tasks = Pre
        /\ \A s \in StatusArgs :
              get_tasks_by_status(tasks, s) = get_tasks_by_status(Pre, s)

UpdateMissIsNoopWitness ==
    /\ lastOp.op = "update"
    /\ ~HasId(Pre, lastOp.id)
    /\ Len(tasks) = 2

\* C10: confirm() with a title that is empty or all whitespace shows the
\* warning and leaves collection and file as they were; every task in
\* memory and in the file has a non-empty title.
EmptyTitleRejected ==
    /\ (handler = "confirm" /\ Blank(title_entry)) =>
          /\ lastOp.op = "none"
          /\ messagebox = "Warning"
          /\ tasks = Pre
          /\ file = lastOp.pre_file
    /\ \A i \in 1..Len(tasks) : tasks[i].title # <<>>
    /\ \A i \in 1..Len(load_tasks(file)) : load_tasks(file)[i].title # <<>>

EmptyTitleRejectedWitness ==
    /\ handler = "confirm"
    /\ title_entry = <<" ">>
    /\ lastOp.op = "none"
    /\ Len(tasks) = 2

====
